---------------------------- MODULE Spec2Model ----------------------------
(***************************************************************************)
(* Model of androidy-log's buffered log writer (src/src/lib.rs).           *)
(*                                                                         *)
(* A Writer owns a tag (TAG_MAX_LEN + 1 bytes), a priority, a message      *)
(* buffer (BUFFER_CAPACITY + 1 bytes) and the resident length len.         *)
(* write_data copies input into the buffer and flushes through             *)
(* __android_log_write whenever input remains after a copy; flush and      *)
(* drop deliver what is resident.                                          *)
(*                                                                         *)
(* Byte arrays are sequences indexed from 1: the byte at Rust offset i is  *)
(* element i + 1.  write_data is modelled one loop step at a time (pc).    *)
(* BUFFER_CAPACITY is 4000 in the source; the model is parametric in it    *)
(* and is checked for small capacities, every formula being stated in      *)
(* terms of BUFFER_CAPACITY.                                               *)
(***************************************************************************)
EXTENDS Integers, Sequences, FiniteSets

(* ---------------------------- constants ------------------------------- *)

TAG_MAX_LEN == 23

BUFFER_CAPACITY == 2

\* "Rust"
DEFAULT_TAG == <<82, 117, 115, 116>>

UNKNOWN == 0
DEFAULT == 1
VERBOSE == 2
DEBUG == 3
INFO == 4
WARN == 5
ERROR == 6
FATAL == 7
SILENT == 8

LogPriority == {UNKNOWN, DEFAULT, VERBOSE, DEBUG, INFO, WARN, ERROR, FATAL, SILENT}

(* ------------------------------ bounds -------------------------------- *)

\* Total number of bytes handed to write_data over a writer's life.
MaxTotal == 5

\* Byte values of written data: the null byte and one other.
DataBytes == {0, 97}

\* Values an uninitialised tag byte may turn out to hold when it is read.
UninitBytes == {0, 170}

\* Status codes the sink may return.
SinkStatus == {0 - 1, 1}

\* "Test" (tests::TAG)
TAG == <<84, 101, 115, 116>>

\* "123456789123456789123456789" (tests::TAG_OVERFLOW), 27 bytes
TAG_OVERFLOW == [i \in 1..27 |-> 49 + ((i - 1) % 9)]

\* A tag of exactly TAG_MAX_LEN bytes.
TAG_EXACT == [i \in 1..TAG_MAX_LEN |-> 65 + (i - 1)]

TagInputs == {<<>>, TAG, DEFAULT_TAG, TAG_EXACT, TAG_OVERFLOW}

PrioInputs == {INFO, ERROR}

\* Marker of a buffer byte that has never been written.
Uninit == 0 - 1

(* ------------------------------ helpers ------------------------------- *)

Min(a, b) == IF a <= b THEN a ELSE b

\* usize::saturating_sub
SaturatingSub(a, b) == IF a >= b THEN a - b ELSE 0

\* All sequences over S of length 0..n.
SeqsUpTo(S, n) == UNION {[1..k -> S] : k \in 0..n}

\* The bytes a reader of a C string sees: those before the first null byte.
CStr(mem) ==
    LET nulls == {i \in 1..Len(mem) : mem[i] = 0}
    IN  IF nulls = {} THEN mem
        ELSE SubSeq(mem, 1, (CHOOSE i \in nulls : \A j \in nulls : i <= j) - 1)

VARIABLES
    pc,          \* "new" | "idle" | "copy" | "flush" | "ret" | "borrowed" | "dropped"
    tag,         \* Writer.tag: TAG_MAX_LEN + 1 bytes
    prio,        \* Writer.prio
    buffer,      \* Writer.buffer: BUFFER_CAPACITY + 1 bytes
    len,         \* Writer.len
    data,        \* write_data's local `data`: the input not yet copied
    sink,        \* the calls of __android_log_write so far, in order
    status,      \* the status the sink returned last
    result,      \* <<call, value>>: what the last finished call returned
    view,        \* the slice returned by buffer() while it is borrowed
    written,     \* history: all bytes passed to write_data, in order
    tagText,     \* history: the tag text given to the constructor
    arg,         \* history: the input of the running write_data call
    len0,        \* history: len when the running write_data call began
    calls,       \* history: sink calls made by the running write_data or drop
    userFlushed, \* history: flush() has been called by the owner
    macro        \* history: the macro invocation that made the writer, or "none"

vars == <<pc, tag, prio, buffer, len, data, sink, status, result, view,
          written, tagText, arg, len0, calls, userFlushed, macro>>

(* --------------------------- the sink ---------------------------------- *)

\* A sink call that ignores the writer's priority.
AndroidLogWriteInfo(p, t, b, l) == [prio |-> INFO, tag |-> t, text |-> b, len |-> l]

\* __android_log_write(prio, tag, text): the sink is handed the priority and
\* pointers to the tag and message memory.  `len` is not an argument of the
\* sink; it is recorded for the properties.
AndroidLogWrite(p, t, b, l) == [prio |-> p, tag |-> t, text |-> b, len |-> l]

\* The message bytes the writer hands over: the resident bytes.
Passed(call) == SubSeq(call.text, 1, call.len)

\* The message and the tag as the sink reads them.
SinkText(call) == CStr(call.text)

SinkTag(call) == CStr(call.tag)

(* ------------------------- construction -------------------------------- *)

\* Writer::from_raw_parts
FromRawParts(t, p) ==
    /\ tag' = t
    /\ prio' = p
    /\ buffer' = [i \in 1..(BUFFER_CAPACITY + 1) |-> Uninit]
    /\ len' = 0

\* The tag storage Writer::new builds: min(tag.len(), TAG_MAX_LEN) bytes are
\* copied, a null is written at offset TAG_MAX_LEN, the bytes in between are
\* never initialised and hold `fill`.
NewTagBuffer(text, fill) ==
    [i \in 1..(TAG_MAX_LEN + 1) |->
        IF i <= Min(Len(text), TAG_MAX_LEN) THEN text[i]
        ELSE IF i = TAG_MAX_LEN + 1 THEN 0
        ELSE fill]

\* The tag storage Writer::new_default builds: zeroes, then the 4 default
\* bytes.
DefaultTagBuffer ==
    [i \in 1..(TAG_MAX_LEN + 1) |-> IF i <= 4 THEN DEFAULT_TAG[i] ELSE 0]

\* Writer::new
New ==
    /\ pc = "new"
    /\ \E text \in TagInputs, p \in PrioInputs, fill \in UninitBytes :
          /\ FromRawParts(NewTagBuffer(text, fill), p)
          /\ tagText' = text
    /\ pc' = "idle"
    /\ UNCHANGED <<data, sink, status, result, view, written, arg, len0, calls,
                   userFlushed, macro>>

\* Writer::new_default
NewDefault ==
    /\ pc = "new"
    /\ \E p \in PrioInputs : FromRawParts(DefaultTagBuffer, p)
    /\ tagText' = DEFAULT_TAG
    /\ pc' = "idle"
    /\ UNCHANGED <<data, sink, status, result, view, written, arg, len0, calls,
                   userFlushed, macro>>

(* ------------------------------ buffer --------------------------------- *)

\* A slice that takes in the terminator slot.
BufferWithTerminator(b, l) == SubSeq(b, 1, l + 1)

\* Writer::buffer: slice::from_raw_parts(buffer, len)
Buffer(b, l) == SubSeq(b, 1, l)

\* A call of buffer(): the returned slice borrows the writer, which cannot be
\* written, flushed or dropped until the slice is released.
BufferBorrow ==
    /\ pc = "idle"
    /\ macro = "none"
    /\ view' = Buffer(buffer, len)
    /\ pc' = "borrowed"
    /\ UNCHANGED <<tag, prio, buffer, len, data, sink, status, result, written,
                   tagText, arg, len0, calls, userFlushed, macro>>

BufferRelease ==
    /\ pc = "borrowed"
    /\ view' = <<>>
    /\ pc' = "idle"
    /\ UNCHANGED <<tag, prio, buffer, len, data, sink, status, result, written,
                   tagText, arg, len0, calls, userFlushed, macro>>

(* ----------------------------- flush ----------------------------------- *)

\* A terminator written over the last resident byte.
TerminatedInside(b, l) == [b EXCEPT ![l] = 0]

\* A terminator always written in the last slot of the buffer, as
\* Writer::new does for the tag.
TerminatedAtEnd(b, l) == [b EXCEPT ![Len(b)] = 0]

\* inner_flush: the buffer after the terminator is written at offset len.
Terminated(b, l) == [b EXCEPT ![l + 1] = 0]

\* A flush that keeps the resident bytes when the sink reports a failure.
FlushedLenOnSuccess(l, st) == IF st < 0 THEN l ELSE 0

\* inner_flush: the resident length afterwards; the sink's status st is not
\* looked at.
FlushedLen(l, st) == 0

\* Writer::inner_flush
InnerFlush ==
    /\ buffer' = Terminated(buffer, len)
    /\ sink' = Append(sink, AndroidLogWrite(prio, tag, buffer', len))
    /\ \E st \in SinkStatus :
          /\ status' = st
          /\ len' = FlushedLen(len, st)

\* A flush that skips a single resident byte.
ShouldFlushMany(l) == l > 1

\* A flush that calls the sink even when nothing is resident.
ShouldFlushAlways(l) == TRUE

\* A flush that waits for more than a full buffer.
ShouldFlushBeyond(l) == l > BUFFER_CAPACITY

\* The condition under which Writer::flush calls inner_flush.
ShouldFlush(l) == l > 0

\* Writer::flush
FlushBody ==
    IF ShouldFlush(len)
    THEN InnerFlush
    ELSE UNCHANGED <<buffer, sink, status, len>>

\* A call of flush by the owner (Writer::flush, io::Write::flush -> Ok(())).
Flush ==
    /\ pc = "idle"
    /\ macro = "none"
    /\ FlushBody
    /\ result' = <<"flush", "Ok">>
    /\ userFlushed' = TRUE
    /\ UNCHANGED <<pc, tag, prio, data, view, written, tagText, arg, len0, calls,
                   macro>>

\* Drop for Writer
Drop ==
    /\ pc = "idle"
    /\ FlushBody
    /\ calls' = Len(sink') - Len(sink)
    /\ pc' = "dropped"
    /\ UNCHANGED <<tag, prio, data, result, view, written, tagText, arg, len0,
                   userFlushed, macro>>

(* --------------------------- write_data -------------------------------- *)

\* A copy that does not clamp to the free space.
WriteLenUnclamped(l, text) == Len(text)

\* A copy that leaves the last usable byte of the buffer free.
WriteLenShort(l, text) == Min(SaturatingSub(BUFFER_CAPACITY - 1, l), Len(text))

\* copy_data: the number of bytes copied.
WriteLen(l, text) == Min(SaturatingSub(BUFFER_CAPACITY, l), Len(text))

\* A copy to the start of the buffer instead of offset len.
CopiedAtStart(b, l, text, n) ==
    [i \in 1..Len(b) |-> IF i <= n THEN text[i] ELSE b[i]]

\* copy_data: the buffer after ptr::copy_nonoverlapping.
Copied(b, l, text, n) ==
    [i \in 1..Len(b) |-> IF l < i /\ i <= l + n THEN text[i - l] ELSE b[i]]

\* A rest that starts one byte too far.
RestSkipping(text, n) == SubSeq(text, n + 2, Len(text))

\* copy_data: the returned rest of the input, &text[write_len..].
Rest(text, n) == SubSeq(text, n + 1, Len(text))

\* copy_data: self.len += write_len.
Advanced(l, n) == l + n

\* A loop that flushes a full buffer at once, without waiting for more input.
AfterCopyEager(rest, l) ==
    IF rest = <<>> /\ l < BUFFER_CAPACITY THEN "ret" ELSE "flush"

\* A loop that also flushes what is resident once the input is used up.
AfterCopyFlushLast(rest, l) == IF rest = <<>> /\ l = 0 THEN "ret" ELSE "flush"

\* write_data: where the loop goes after copy_data returned `rest` and left
\* l bytes resident: break when the input is used up, flush otherwise.
AfterCopy(rest, l) == IF rest = <<>> THEN "ret" ELSE "flush"

\* A call of write_data (through fmt::Write::write_str or io::Write::write):
\* entry into the loop.
WriteData ==
    /\ pc = "idle"
    /\ macro \in {"none", "println", "eprintln"}
    /\ \E d \in SeqsUpTo(DataBytes, MaxTotal - Len(written)) :
          /\ data' = d
          /\ arg' = d
          /\ written' = written \o d
    /\ len0' = len
    /\ calls' = 0
    /\ pc' = "copy"
    /\ UNCHANGED <<tag, prio, buffer, len, sink, status, result, view, tagText,
                   userFlushed, macro>>

\* data = self.copy_data(data), then the test of data.is_empty().
CopyData ==
    /\ pc = "copy"
    /\ LET n == WriteLen(len, data)
       IN  /\ buffer' = Copied(buffer, len, data, n)
           /\ len' = Advanced(len, n)
           /\ data' = Rest(data, n)
    /\ pc' = AfterCopy(data', len')
    /\ UNCHANGED <<tag, prio, sink, status, result, view, written, tagText, arg,
                   len0, calls, userFlushed, macro>>

\* The else branch of the loop: self.flush().
WriteFlush ==
    /\ pc = "flush"
    /\ FlushBody
    /\ calls' = calls + (Len(sink') - Len(sink))
    /\ pc' = "copy"
    /\ UNCHANGED <<tag, prio, data, result, view, written, tagText, arg, len0,
                   userFlushed, macro>>

\* break, and the return of write_str (Ok(())) or write (Ok(buf.len())).
WriteReturn ==
    /\ pc = "ret"
    /\ result' = <<"write", "Ok">>
    /\ pc' = "idle"
    /\ arg' = <<>>
    /\ len0' = 0
    /\ calls' = 0
    /\ UNCHANGED <<tag, prio, buffer, len, data, sink, status, view, written,
                   tagText, userFlushed, macro>>

(* ------------------------------ macros --------------------------------- *)

\* The literal " " printed by the arms without arguments.
SPACE == <<32>>

\* The `($($arg:tt)*)` arm of println! and eprintln!, invoked as macro m:
\* a writer made by new_default(p); write!(writer, args) then calls
\* write_str once for each piece of the formatted text (WriteData), and
\* drop(writer) ends it (Drop).
MacroArgs(m, p) ==
    /\ pc = "new"
    /\ FromRawParts(DefaultTagBuffer, p)
    /\ tagText' = DEFAULT_TAG
    /\ macro' = m
    /\ pc' = "idle"
    /\ UNCHANGED <<data, sink, status, result, view, written, arg, len0, calls,
                   userFlushed>>

\* The `()` arm of println! and of eprintln!, invoked as macro m: both are
\* $crate::println!(" "), the arm with arguments of println! with the one
\* piece " ", whose write_str call begins here.
MacroNoArgs(m) ==
    /\ pc = "new"
    /\ FromRawParts(DefaultTagBuffer, INFO)
    /\ tagText' = DEFAULT_TAG
    /\ macro' = m
    /\ data' = SPACE
    /\ arg' = SPACE
    /\ written' = SPACE
    /\ len0' = 0
    /\ calls' = 0
    /\ pc' = "copy"
    /\ UNCHANGED <<sink, status, result, view, userFlushed>>

\* println!
Println ==
    \/ MacroNoArgs("println0")
    \/ MacroArgs("println", INFO)

\* eprintln!
Eprintln ==
    \/ MacroNoArgs("eprintln0")
    \/ MacroArgs("eprintln", ERROR)

(* -------------------------- specification ------------------------------ *)

Init ==
    /\ pc = "new"
    /\ tag = <<>>
    /\ prio = UNKNOWN
    /\ buffer = <<>>
    /\ len = 0
    /\ data = <<>>
    /\ sink = <<>>
    /\ status = 0
    /\ result = <<"none", "None">>
    /\ view = <<>>
    /\ written = <<>>
    /\ tagText = <<>>
    /\ arg = <<>>
    /\ len0 = 0
    /\ calls = 0
    /\ userFlushed = FALSE
    /\ macro = "none"

Next ==
    \/ New
    \/ NewDefault
    \/ BufferBorrow
    \/ BufferRelease
    \/ Flush
    \/ Drop
    \/ WriteData
    \/ CopyData
    \/ WriteFlush
    \/ WriteReturn
    \/ Println
    \/ Eprintln

Spec == Init /\ [][Next]_vars

\* The life of a writer made by new_default and used directly by its owner.
NextDefault ==
    \/ NewDefault
    \/ Flush
    \/ Drop
    \/ WriteData
    \/ CopyData
    \/ WriteFlush
    \/ WriteReturn

\* write_data runs to completion on the caller's thread: once called, each
\* step of its loop is taken.
SpecFair ==
    /\ Init
    /\ [][NextDefault]_vars
    /\ WF_vars(CopyData)
    /\ WF_vars(WriteFlush)
    /\ WF_vars(WriteReturn)

TypeOK ==
    /\ pc \in {"new", "idle", "copy", "flush", "ret", "borrowed", "dropped"}
    /\ prio \in LogPriority
    /\ len \in Nat
    /\ status \in SinkStatus \cup {0}
    /\ userFlushed \in BOOLEAN
    /\ macro \in {"none", "println", "println0", "eprintln", "eprintln0"}
    /\ pc # "new" => Len(tag) = TAG_MAX_LEN + 1 /\ Len(buffer) = BUFFER_CAPACITY + 1

(* ---------------------------- properties ------------------------------ *)

RECURSIVE ConcatPassed(_)
\* The messages handed to the sink by the calls cs, concatenated in order.
ConcatPassed(cs) ==
    IF cs = <<>> THEN <<>> ELSE Passed(Head(cs)) \o ConcatPassed(Tail(cs))

Delivered == ConcatPassed(sink)

\* ceil(n / BUFFER_CAPACITY)
CeilCap(n) == (n + BUFFER_CAPACITY - 1) \div BUFFER_CAPACITY

\* C1: once the writer is dropped, the messages handed to the sink,
\* concatenated in call order, are exactly the bytes written, in order: no
\* gap, no duplication, the same total length.
DeliveryComplete ==
    pc = "dropped" => Delivered = written

\* C1 witness: a dropped writer that took more than two buffers of input
\* and delivered it in at least three sink calls.
DeliveryCompleteWitness ==
    /\ pc = "dropped"
    /\ Len(written) > 2 * BUFFER_CAPACITY
    /\ Len(sink) >= 3
    /\ Delivered = written

\* C2: the resident length is within 0..BUFFER_CAPACITY in every state:
\* before and after every call and after each copy_data inside write_data.
CapacityInvariant ==
    len >= 0 /\ len <= BUFFER_CAPACITY

\* C2 witness: inside write_data, right after a copy_data that filled the
\* buffer with input still left.
CapacityInvariantWitness ==
    /\ pc = "flush"
    /\ len = BUFFER_CAPACITY
    /\ Len(data) > BUFFER_CAPACITY

\* C3: drop makes exactly one sink call when bytes are resident and none
\* when not, and leaves nothing resident and every written byte delivered.
DropFlushesOnce ==
    [][(pc = "idle" /\ pc' = "dropped") =>
          /\ Len(sink') = Len(sink) + (IF len > 0 THEN 1 ELSE 0)
          /\ len' = 0
          /\ Delivered' = written']_vars

\* C3 witness: a writer dropped with a partly filled buffer, whose drop made
\* the one sink call that delivered it.
DropFlushesOnceWitness ==
    /\ pc = "dropped"
    /\ calls = 1
    /\ len = 0
    /\ sink[Len(sink)].len < BUFFER_CAPACITY
    /\ Len(written) > BUFFER_CAPACITY

\* C4: the tag stored by Writer::new holds the first min(n, TAG_MAX_LEN)
\* bytes of the tag text, then a null at offset min(n, TAG_MAX_LEN), so the
\* sink reads exactly those bytes as the tag.
TagTerminatedAfterText ==
    pc # "new" =>
        LET m == Min(Len(tagText), TAG_MAX_LEN)
        IN  /\ SubSeq(tag, 1, m) = SubSeq(tagText, 1, m)
            /\ tag[m + 1] = 0
            /\ CStr(tag) = SubSeq(tagText, 1, m)

\* C5: when a write of BUFFER_CAPACITY * k + r bytes (0 < r < BUFFER_CAPACITY)
\* into an empty buffer returns, it has made exactly k sink calls carrying
\* the successive BUFFER_CAPACITY-byte chunks of the input, and the last r
\* bytes are resident.
OverflowChunking ==
    (pc = "ret" /\ len0 = 0 /\ Len(arg) % BUFFER_CAPACITY # 0) =>
        LET k == Len(arg) \div BUFFER_CAPACITY
            r == Len(arg) % BUFFER_CAPACITY
        IN  /\ calls = k
            /\ Len(sink) >= k
            /\ \A j \in 1..k :
                  Passed(sink[Len(sink) - k + j]) =
                      SubSeq(arg, (j - 1) * BUFFER_CAPACITY + 1, j * BUFFER_CAPACITY)
            /\ len = r
            /\ Buffer(buffer, len) = SubSeq(arg, k * BUFFER_CAPACITY + 1, Len(arg))

\* C5 witness: a write of two buffers and one byte into an empty buffer has
\* returned after two sink calls.
OverflowChunkingWitness ==
    /\ pc = "ret"
    /\ len0 = 0
    /\ Len(arg) = 2 * BUFFER_CAPACITY + 1
    /\ calls = 2
    /\ len = 1

\* C6: a flush with nothing resident calls no sink and changes nothing of
\* the writer, and no sink call ever carries an empty message.
NoEmptyFlush ==
    /\ [][(pc = "idle" /\ pc' = "idle" /\ len = 0) =>
            UNCHANGED <<sink, buffer, len, tag, prio, status, data>>]_vars
    /\ [](\A i \in 1..Len(sink) : sink[i].len > 0)

\* C6 witness: flush has returned on a writer that never held a byte, and
\* the sink was not called.
NoEmptyFlushWitness ==
    /\ pc = "idle"
    /\ result = <<"flush", "Ok">>
    /\ written = <<>>
    /\ len = 0
    /\ sink = <<>>

\* C7: a write_data call of n bytes makes at most ceil(n / BUFFER_CAPACITY)
\* sink calls, whatever was resident when it began; a zero-length write
\* makes none and leaves the buffer and its length as they were, even when
\* the buffer is full.
SinkCallBound ==
    /\ [](pc = "ret" =>
            /\ calls <= CeilCap(Len(arg))
            /\ Len(arg) = 0 => (calls = 0 /\ len = len0))
    /\ [][(pc = "copy" /\ arg = <<>>) =>
            (pc' = "ret" /\ UNCHANGED <<buffer, len, sink, status>>)]_vars

\* C7 witness: a write of one byte more than a buffer into a full buffer
\* has returned after ceil(n / BUFFER_CAPACITY) = 2 sink calls.
SinkCallBoundWitness ==
    /\ pc = "ret"
    /\ len0 = BUFFER_CAPACITY
    /\ Len(arg) = BUFFER_CAPACITY + 1
    /\ calls = 2

\* C7 witness of the zero-length case: an empty write into a full buffer
\* has returned.
EmptyWriteOnFullWitness ==
    /\ pc = "ret"
    /\ len0 = BUFFER_CAPACITY
    /\ arg = <<>>
    /\ len = BUFFER_CAPACITY

\* C8 as stated: after each write of a writer that was never flushed by its
\* owner, the resident length is T mod BUFFER_CAPACITY, T being the number
\* of bytes written so far (so 0 when T is an exact multiple).
ResidentIsTotalMod ==
    (pc = "ret" /\ ~userFlushed) => len = Len(written) % BUFFER_CAPACITY

\* C8 amended: after each write of a writer that was never flushed by its
\* owner, the resident length is T mod BUFFER_CAPACITY when T is not an
\* exact multiple of BUFFER_CAPACITY, BUFFER_CAPACITY when T is a positive
\* exact multiple, and 0 when T = 0.
ResidentTracksTotal ==
    (pc = "ret" /\ ~userFlushed) =>
        len = IF Len(written) = 0 THEN 0
              ELSE IF Len(written) % BUFFER_CAPACITY = 0 THEN BUFFER_CAPACITY
              ELSE Len(written) % BUFFER_CAPACITY

\* C8 witness: a second write has brought the total to two full buffers;
\* one has been delivered and the other is resident.
ResidentTracksTotalWitness ==
    /\ pc = "ret"
    /\ ~userFlushed
    /\ Len(arg) < Len(written)
    /\ Len(written) = 2 * BUFFER_CAPACITY
    /\ len = BUFFER_CAPACITY
    /\ Len(sink) = 1

\* C9: every sink call is followed by a resident length of 0 and by the
\* same writer state whatever status the sink returned; the status changes
\* only at a sink call, and every finished call returned Ok.
SinkStatusDiscarded ==
    /\ [][Len(sink') # Len(sink) =>
            /\ len > 0
            /\ len' = 0
            /\ buffer' = Terminated(buffer, len)
            /\ sink' = Append(sink, AndroidLogWrite(prio, tag, buffer', len))
            /\ pc \in {"idle", "flush"}
            /\ pc = "flush" => pc' = "copy"
            /\ UNCHANGED <<tag, prio, data, view, written>>]_vars
    /\ [][Len(sink') = Len(sink) => status' = status]_vars
    /\ [](result[2] \in {"None", "Ok"})

\* C9 witness: the sink has reported a failure for a full buffer flushed
\* from inside write_data, and the write went on: the buffer was emptied,
\* the rest of the input copied, and Ok returned later.
SinkStatusDiscardedWitness ==
    /\ pc = "ret"
    /\ status < 0
    /\ calls = 1
    /\ len = 1
    /\ Delivered \o Buffer(buffer, len) = written

\* C10: once constructed, the tag and the priority never change, and every
\* sink call carries them.
TagPrioImmutable ==
    /\ [][pc # "new" => (tag' = tag /\ prio' = prio)]_vars
    /\ [](\A i \in 1..Len(sink) : sink[i].prio = prio /\ sink[i].tag = tag)

\* C10 witness: a writer with priority ERROR has been dropped after at
\* least two sink calls, one of them following an explicit flush.
TagPrioImmutableWitness ==
    /\ pc = "dropped"
    /\ prio = ERROR
    /\ userFlushed
    /\ Len(sink) >= 2

\* C11: a writer built by new with the default tag text stores what
\* new_default stores: the sink reads the same tag from it, at construction
\* and in every sink call, and nothing is resident at construction.
ConstructorsAgree ==
    (pc # "new" /\ tagText = DEFAULT_TAG) =>
        /\ CStr(tag) = CStr(DefaultTagBuffer)
        /\ \A i \in 1..Len(sink) : SinkTag(sink[i]) = DEFAULT_TAG
        /\ (written = <<>> => len = 0)

\* C12: every sink call of an eprintln! invocation carries priority ERROR
\* and every sink call of a println! invocation carries priority INFO, in
\* the form with arguments and in the form without.
MacroPriorities ==
    \A i \in 1..Len(sink) :
        /\ macro \in {"eprintln", "eprintln0"} => sink[i].prio = ERROR
        /\ macro \in {"println", "println0"} => sink[i].prio = INFO

\* C13: in every sink call the byte at offset len of the message buffer is
\* null and lies inside the BUFFER_CAPACITY + 1 bytes of storage; copy_data
\* stores input bytes only, at offsets below BUFFER_CAPACITY, and the only
\* other step that writes the buffer is the flush that calls the sink, which
\* writes the null at offset len.
LazyTermination ==
    /\ [](\A i \in 1..Len(sink) :
            /\ sink[i].len <= BUFFER_CAPACITY
            /\ Len(sink[i].text) = BUFFER_CAPACITY + 1
            /\ sink[i].text[sink[i].len + 1] = 0)
    /\ [][pc = "copy" =>
            \A i \in 1..Len(buffer) :
                buffer'[i] # buffer[i] =>
                    /\ i <= BUFFER_CAPACITY
                    /\ len < i /\ i <= len'
                    /\ buffer'[i] = data[i - len]]_vars
    /\ [][(pc \notin {"new", "copy"} /\ buffer' # buffer) =>
            /\ Len(sink') = Len(sink) + 1
            /\ \A i \in 1..Len(buffer) : buffer'[i] # buffer[i] => i = len + 1
            /\ sink'[Len(sink')].text = buffer']_vars

\* C13 witness: one sink call carried a full buffer, its null in the extra
\* slot at offset BUFFER_CAPACITY, and a later one a shorter message whose
\* null replaced a byte left by the earlier message.
LazyTerminationWitness ==
    /\ Len(sink) >= 2
    /\ sink[1].len = BUFFER_CAPACITY
    /\ sink[1].text[1] # 0
    /\ sink[2].len = 1
    /\ sink[2].text[BUFFER_CAPACITY + 1] = 0

\* C14: every sink call made from inside write_data carries exactly
\* BUFFER_CAPACITY bytes; a shorter message is delivered only by a flush
\* called by the owner or by drop.
OverflowFlushesFull ==
    /\ [](pc = "flush" => len = BUFFER_CAPACITY)
    /\ [][Len(sink') # Len(sink) =>
            /\ pc = "flush" => sink'[Len(sink')].len = BUFFER_CAPACITY
            /\ sink'[Len(sink')].len < BUFFER_CAPACITY =>
                  (pc = "idle" /\ pc' \in {"idle", "dropped"})]_vars

\* C14 witness: a write into a partly filled buffer has returned after two
\* sink calls, each of a full buffer, the first made of bytes of two writes.
OverflowFlushesFullWitness ==
    /\ pc = "ret"
    /\ len0 = 1
    /\ calls = 2
    /\ Len(sink) = 2
    /\ sink[1].len = BUFFER_CAPACITY
    /\ sink[2].len = BUFFER_CAPACITY

\* C15: between operations, the messages delivered to the sink so far
\* followed by the resident bytes are exactly the bytes written so far.
PrefixInvariant ==
    pc \in {"idle", "borrowed", "dropped"} =>
        Delivered \o Buffer(buffer, len) = written

\* C15 witness: between operations, after writes and flushes by the owner:
\* two messages delivered, one of them short, and bytes resident again.
PrefixInvariantWitness ==
    /\ pc = "idle"
    /\ userFlushed
    /\ Len(sink) = 2
    /\ sink[1].len < BUFFER_CAPACITY
    /\ len > 0
    /\ Len(written) = MaxTotal

\* C16: buffer() returns exactly the len resident bytes, calls no sink and
\* changes nothing of the writer; on a writer never flushed that was given
\* at most BUFFER_CAPACITY bytes, no sink call has happened and buffer() is
\* the concatenation of the written slices.
BufferPureView ==
    /\ [][(pc = "idle" /\ pc' = "borrowed") =>
            /\ Len(view') = len
            /\ \A i \in 1..len : view'[i] = buffer[i]
            /\ UNCHANGED <<tag, prio, buffer, len, sink, status, data, written>>]_vars
    /\ []((pc = "borrowed" /\ ~userFlushed /\ Len(written) <= BUFFER_CAPACITY) =>
            (sink = <<>> /\ view = written))

\* C16 witness: buffer() is borrowed from a writer that two writes filled
\* exactly, with no sink call.
BufferPureViewWitness ==
    /\ pc = "borrowed"
    /\ ~userFlushed
    /\ result = <<"write", "Ok">>
    /\ Len(written) = BUFFER_CAPACITY
    /\ view = written
    /\ view[1] # view[2]
    /\ sink = <<>>

\* C17: every write_data call returns, with all its input consumed: each
\* flush reached in the loop finds bytes resident and empties the buffer,
\* and each copy_data after the first takes at least one input byte.
WriteTerminates ==
    /\ (pc = "copy") ~> (pc = "ret" /\ data = <<>>)
    /\ [](pc = "flush" => (len > 0 /\ data # <<>>))
    /\ [][pc = "flush" => (len' = 0 /\ Len(sink') = Len(sink) + 1)]_vars
    /\ [](pc = "copy" => (data = arg /\ calls = 0) \/ (calls > 0 /\ len = 0 /\ data # <<>>))
    /\ [][(pc = "copy" /\ calls > 0) => Len(data') < Len(data)]_vars

\* C17 witness: a write into a full buffer has returned: its first copy_data
\* took nothing, and two flushes and two more copies consumed the input.
WriteTerminatesWitness ==
    /\ pc = "ret"
    /\ len0 = BUFFER_CAPACITY
    /\ Len(arg) = BUFFER_CAPACITY + 1
    /\ calls = 2
    /\ data = <<>>
    /\ len = 1

\* C18: in every sink call the message as the sink reads it, the bytes
\* before the first null, is as long as the resident length was: the only
\* null among the first len + 1 bytes of the buffer is the terminator.
SinkReadsWholeMessage ==
    \A i \in 1..Len(sink) :
        /\ Len(SinkText(sink[i])) = sink[i].len
        /\ \A j \in 1..sink[i].len : sink[i].text[j] # 0

=============================================================================
